---- MODULE Spec2Model ----
(***************************************************************************)
(* Model of src/handler.py: the RunPod text-to-speech handler.             *)
(* Strings are sequences of one-character strings.  The external           *)
(* collaborators (model.generate, urlretrieve, NamedTemporaryFile, the     *)
(* MP3 export) are modelled at their interface: each call either succeeds  *)
(* or raises.  An AudioSegment is modelled by its data, a sequence of      *)
(* runs <<origin, milliseconds>>; len(segment) is its duration in ms.      *)
(***************************************************************************)
EXTENDS Integers, Sequences, FiniteSets, TLC

\* ------------------------------------------------------------------------
\* Bounds
\* ------------------------------------------------------------------------
\* number of chunks a text given to handler is built from
MaxChunks == 3
\* number of chunks a text given to _sanitise_text alone is built from
MaxSanitiseChunks == 4
\* longest waveform (in ms) the model returns for one segment
MaxAudioMs == 1

\* ------------------------------------------------------------------------
\* Characters
\* ------------------------------------------------------------------------
QUOTE == "\""
BACKSLASH == "\\"
SPACE == " "
NEWLINE == "\n"
\* a control character of [\x00-\x08\x0b\x0c\x0e-\x1f\x7f], e.g. \x01
CTRL == "<SOH>"
\* U+FF02 FULLWIDTH QUOTATION MARK, which NFKC maps to U+0022
FWQUOTE == "<U+FF02>"

Whitespace == {SPACE, NEWLINE}
Digits == {"0", "1"}

\* the literal prefix of the pause pattern, "[pause:"
PausePrefix == <<"[", "p", "a", "u", "s", "e", ":">>

\* the pieces the texts given to handler are concatenated from
Chunks ==
  { <<"a">>, <<SPACE>>, <<QUOTE>>, <<CTRL>>,
    PausePrefix \o <<"1", "]">>,
    PausePrefix \o <<"1", ".", "0", "0", "1", "]">>,
    PausePrefix }

\* the pieces the texts given to _sanitise_text alone are concatenated from
SanitiseChunks ==
  { <<"a">>, <<SPACE>>, <<NEWLINE>>, <<QUOTE>>, <<BACKSLASH, QUOTE>>,
    <<CTRL>>, <<FWQUOTE>> }

RECURSIVE Texts(_, _)
Texts(chunks, n) ==
  IF n = 0 THEN { <<>> }
  ELSE LET shorter == Texts(chunks, n - 1)
       IN  shorter \cup { c \o t : c \in chunks, t \in shorter }

\* values of input.audio_prompt_url: key absent, empty string, a URL
UrlKinds == {"absent", "empty", "url"}

\* ------------------------------------------------------------------------
\* _sanitise_text
\* ------------------------------------------------------------------------
RECURSIVE LStrip(_)
LStrip(s) ==
  IF s = <<>> THEN <<>>
  ELSE IF Head(s) \in Whitespace THEN LStrip(Tail(s)) ELSE s

RECURSIVE RStrip(_)
RStrip(s) ==
  IF s = <<>> THEN <<>>
  ELSE IF s[Len(s)] \in Whitespace THEN RStrip(SubSeq(s, 1, Len(s) - 1)) ELSE s

\* str.strip()
PyStrip(s) == RStrip(LStrip(s))

\* scan of a JSON string body from position p (after the opening quote);
\* ok only if the closing quote is the last character of s
RECURSIVE JsonBody(_, _, _)
JsonBody(s, p, acc) ==
  IF p > Len(s) THEN [ok |-> FALSE, value |-> <<>>]
  ELSE IF s[p] = QUOTE
       THEN [ok |-> p = Len(s), value |-> acc]
  ELSE IF s[p] = BACKSLASH
       THEN IF p + 1 <= Len(s) /\ s[p + 1] \in {QUOTE, BACKSLASH}
            THEN JsonBody(s, p + 2, Append(acc, s[p + 1]))
            ELSE [ok |-> FALSE, value |-> <<>>]
  ELSE IF s[p] \in {CTRL, NEWLINE}
       THEN [ok |-> FALSE, value |-> <<>>]
  ELSE JsonBody(s, p + 1, Append(acc, s[p]))

\* json.loads(s) for an s that starts with a quote
json_loads(s) ==
  IF s # <<>> /\ s[1] = QUOTE THEN JsonBody(s, 2, <<>>)
  ELSE [ok |-> FALSE, value |-> <<>>]

\* the unwrap step, lines 52-58
Unwrap(t) ==
  LET stripped == PyStrip(t)
  IN  IF stripped # <<>> /\ stripped[1] = QUOTE /\ stripped[Len(stripped)] = QUOTE
      THEN LET r == json_loads(stripped) IN IF r.ok THEN r.value ELSE t
      ELSE t

\* unicodedata.normalize("NFKC", text) on the characters of the model
NFKC(t) == [k \in 1..Len(t) |-> IF t[k] = FWQUOTE THEN QUOTE ELSE t[k]]

\* mutant: the control characters are kept
StripControl_Keeps(t) == t

\* re.sub(r"[\x00-\x08\x0b\x0c\x0e-\x1f\x7f]", "", text)
StripControl(t) == SelectSeq(t, LAMBDA c : c # CTRL)

\* re.sub(r"\s+", " ", text)
RECURSIVE CollapseWs(_)
CollapseWs(t) ==
  IF t = <<>> THEN <<>>
  ELSE IF Head(t) \in Whitespace
       THEN <<SPACE>> \o CollapseWs(LStrip(t))
       ELSE <<Head(t)>> \o CollapseWs(Tail(t))

_sanitise_text(t) == PyStrip(CollapseWs(StripControl(NFKC(Unwrap(t)))))

\* ------------------------------------------------------------------------
\* re.split(r"\[pause:(\d+(?:\.\d+)?)\]", text)
\* ------------------------------------------------------------------------
\* position after the longest run of digits that starts at p (\d+ is greedy)
RECURSIVE DigitsEnd(_, _)
DigitsEnd(s, p) ==
  IF p <= Len(s) /\ s[p] \in Digits THEN DigitsEnd(s, p + 1) ELSE p

\* the regex matcher at position p: end is the position after the match
\* (0 when there is no match at p), grp the captured group
MatchMarker(s, p) ==
  LET q  == p + Len(PausePrefix)
      d1 == DigitsEnd(s, q)
      d2 == DigitsEnd(s, d1 + 1)
      no == [end |-> 0, grp |-> <<>>]
  IN  IF q - 1 > Len(s) \/ SubSeq(s, p, q - 1) # PausePrefix THEN no
      ELSE IF d1 = q \/ d1 > Len(s) THEN no
      ELSE IF s[d1] = "]" THEN [end |-> d1 + 1, grp |-> SubSeq(s, q, d1 - 1)]
      ELSE IF s[d1] = "." /\ d2 > d1 + 1 /\ d2 <= Len(s) /\ s[d2] = "]"
           THEN [end |-> d2 + 1, grp |-> SubSeq(s, q, d2 - 1)]
      ELSE no

\* leftmost non-overlapping matches; start is where the current text run began
RECURSIVE SplitFrom(_, _, _)
SplitFrom(s, p, start) ==
  IF p > Len(s) THEN << SubSeq(s, start, Len(s)) >>
  ELSE LET m == MatchMarker(s, p)
       IN  IF m.end = 0 THEN SplitFrom(s, p + 1, start)
           ELSE <<SubSeq(s, start, p - 1), m.grp>> \o SplitFrom(s, m.end, m.end)

\* parts alternates: [text, duration, text, duration, ..., text]
re_split(t) == SplitFrom(t, 1, 1)

\* ------------------------------------------------------------------------
\* int(float(parts[i + 1]) * 1000)
\* ------------------------------------------------------------------------
DigitVal(c) == IF c = "1" THEN 1 ELSE 0

RECURSIVE DecimalInt(_)
DecimalInt(ds) ==
  IF ds = <<>> THEN 0
  ELSE 10 * DecimalInt(SubSeq(ds, 1, Len(ds) - 1)) + DigitVal(ds[Len(ds)])

\* the k-th digit after the point, 0 when absent
FracDigit(fr, k) == IF k <= Len(fr) THEN DigitVal(fr[k]) ELSE 0

\* the decimal numeral times 1000, truncated, in exact arithmetic
DecimalMillis(n) ==
  LET dot == DigitsEnd(n, 1)
      fr  == SubSeq(n, dot + 1, Len(n))
  IN  1000 * DecimalInt(SubSeq(n, 1, dot - 1))
        + 100 * FracDigit(fr, 1) + 10 * FracDigit(fr, 2) + FracDigit(fr, 3)

\* numerals of the model whose binary64 product float(n) * 1000 is rounded
\* to the double just below the exact product: float("1.001") * 1000 is
\* 1000.9999999999999
Binary64Below == { <<"1", ".", "0", "0", "1">> }

\* float(n) * 1000 in IEEE-754 binary64, then int(), which truncates
silence_ms(n) ==
  IF n \in Binary64Below THEN DecimalMillis(n) - 1 ELSE DecimalMillis(n)

\* ------------------------------------------------------------------------
\* AudioSegment
\* ------------------------------------------------------------------------
\* the data of a segment: runs <<kind, call, ms>> of non-zero length, where
\* call is the number of the model.generate call the samples came from
\* (0 for silence)
Run(kind, call, ms) == IF ms = 0 THEN <<>> ELSE << <<kind, call, ms>> >>

RECURSIVE Duration(_)
Duration(runs) ==
  IF runs = <<>> THEN 0 ELSE runs[1][3] + Duration(Tail(runs))

\* combined = None
None == [none |-> TRUE, runs |-> <<>>]
Segment(runs) == [none |-> FALSE, runs |-> runs]
\* AudioSegment.empty()
AudioSegment_empty == Segment(<<>>)
\* AudioSegment.silent(duration=ms)
AudioSegment_silent(ms) == Segment(Run("silence", 0, ms))
\* a + b
Plus(a, b) == Segment(a.runs \o b.runs)
\* mutant: the audio assembled so far is dropped before a pause
Or_DropsLeft(x, y) == y

\* "x or y": None and a segment of len() 0 are falsy
Or(x, y) == IF x.none \/ Duration(x.runs) = 0 THEN y ELSE x

\* ------------------------------------------------------------------------
\* handler
\* ------------------------------------------------------------------------
VARIABLES
  rawText,      \* job_input.get("text", "")
  urlKind,      \* job_input.get("audio_prompt_url")
  pc,           \* position in handler
  text,         \* the sanitised text
  prompt_path,  \* None or the path of the temporary file
  parts,        \* result of re.split
  i,            \* index of the while loop (0-based)
  combined,     \* None or the AudioSegment assembled so far
  pending,      \* what the try block left for after the finally block
  result,       \* how handler ended
  files,        \* temporary files that exist on the filesystem
  created,      \* number of NamedTemporaryFile calls
  downloads,    \* number of urlretrieve calls
  unlinked,     \* number of os.unlink calls
  calls,        \* the model.generate calls made, in order
  units,        \* the text segments and pauses the loop has processed
  encoded,      \* the buffers handed to export
  failed        \* the call that raised: "none", "tmpfile", "fetch", "synth", "encode"

vars == <<rawText, urlKind, pc, text, prompt_path, parts, i, combined, pending,
          result, files, created, downloads, unlinked, calls, units, encoded,
          failed>>

\* the name NamedTemporaryFile gives the file
TmpName == "tmp1"
NoPath == "None"

ErrEmptyText == "input.text is required and must not be empty"
ErrNoSpeakable == "No speakable text found after parsing pause markers"

NoResult == [kind |-> "none", error |-> "", audio |-> <<>>]
ErrorResult(msg) == [kind |-> "error", error |-> msg, audio |-> <<>>]
SuccessResult(seg) == [kind |-> "success", error |-> "", audio |-> seg.runs]
\* an exception leaves handler
Raised == [kind |-> "raised", error |-> "", audio |-> <<>>]

Init ==
  /\ rawText \in Texts(Chunks, MaxChunks)
  /\ urlKind \in UrlKinds
  /\ pc = "start"
  /\ text = <<>>
  /\ prompt_path = NoPath
  /\ parts = <<>>
  /\ i = 0
  /\ combined = None
  /\ pending = "none"
  /\ result = NoResult
  /\ files = {}
  /\ created = 0
  /\ downloads = 0
  /\ unlinked = 0
  /\ calls = <<>>
  /\ units = <<>>
  /\ encoded = <<>>
  /\ failed = "none"

\* lines 99-111: sanitise, reject an empty text, read the parameters
Validate ==
  /\ pc = "start"
  /\ text' = _sanitise_text(rawText)
  /\ IF text' = <<>>
     THEN /\ result' = ErrorResult(ErrEmptyText)
          /\ pc' = "done"
     ELSE /\ result' = result
          /\ pc' = "try"
  /\ UNCHANGED <<rawText, urlKind, prompt_path, parts, i, combined, pending,
                 files, created, downloads, unlinked, calls, units, encoded,
                 failed>>

\* line 113 with a falsy prompt_url: no fetch
SkipFetch ==
  /\ pc = "try"
  /\ urlKind # "url"
  /\ pc' = "split"
  /\ UNCHANGED <<rawText, urlKind, text, prompt_path, parts, i, combined,
                 pending, result, files, created, downloads, unlinked, calls,
                 units, encoded, failed>>

\* mutant: the fetch is guarded by "is not None", so an empty URL is fetched
FetchCreate_EmptyUrl ==
  /\ pc = "try"
  /\ urlKind # "absent"
  /\ created' = created + 1
  /\ \/ /\ files' = files \cup {TmpName}
        /\ pc' = "fetch"
        /\ UNCHANGED <<pending, failed>>
     \/ /\ files' = files
        /\ pending' = "raise"
        /\ failed' = "tmpfile"
        /\ pc' = "finally"
  /\ UNCHANGED <<rawText, urlKind, text, prompt_path, parts, i, combined,
                 result, downloads, unlinked, calls, units, encoded>>

\* lines 113-114, 73-74: _fetch_audio_prompt creates the temporary file
FetchCreate ==
  /\ pc = "try"
  /\ urlKind = "url"
  /\ created' = created + 1
  /\ \/ /\ files' = files \cup {TmpName}
        /\ pc' = "fetch"
        /\ UNCHANGED <<pending, failed>>
     \/ \* NamedTemporaryFile raises
        /\ files' = files
        /\ pending' = "raise"
        /\ failed' = "tmpfile"
        /\ pc' = "finally"
  /\ UNCHANGED <<rawText, urlKind, text, prompt_path, parts, i, combined,
                 result, downloads, unlinked, calls, units, encoded>>

\* mutant: the temporary file is deleted when _fetch_audio_prompt returns
FetchRetrieve_DeletesOnReturn ==
  /\ pc = "fetch"
  /\ downloads' = downloads + 1
  /\ \/ /\ prompt_path' = TmpName
        /\ files' = files \ {TmpName}
        /\ pc' = "split"
        /\ UNCHANGED <<pending, failed>>
     \/ /\ prompt_path' = prompt_path
        /\ files' = files
        /\ pending' = "raise"
        /\ failed' = "fetch"
        /\ pc' = "finally"
  /\ UNCHANGED <<rawText, urlKind, text, parts, i, combined, result,
                 created, unlinked, calls, units, encoded>>

\* lines 75-76, 114: urlretrieve, then the path is assigned to prompt_path
FetchRetrieve ==
  /\ pc = "fetch"
  /\ downloads' = downloads + 1
  /\ \/ /\ prompt_path' = TmpName
        /\ pc' = "split"
        /\ UNCHANGED <<pending, failed>>
     \/ \* urlretrieve raises: the assignment of line 114 never happens
        /\ prompt_path' = prompt_path
        /\ pending' = "raise"
        /\ failed' = "fetch"
        /\ pc' = "finally"
  /\ UNCHANGED <<rawText, urlKind, text, parts, i, combined, result, files,
                 created, unlinked, calls, units, encoded>>

\* lines 117-121
Split ==
  /\ pc = "split"
  /\ parts' = re_split(text)
  /\ combined' = None
  /\ i' = 0
  /\ pc' = "loop"
  /\ UNCHANGED <<rawText, urlKind, text, prompt_path, pending, result, files,
                 created, downloads, unlinked, calls, units, encoded, failed>>

\* the record of one model.generate call
Call(segment_text) ==
  [text |-> segment_text, prompt |-> prompt_path,
   promptExists |-> prompt_path \in files]

\* mutant: the index advances by one after a pause, so the captured number
\* is taken for a text segment
AppendPause_StepsOne(comb, us) ==
  IF i + 1 < Len(parts)
  THEN LET ms == silence_ms(parts[i + 2])
       IN  /\ combined' = Plus(Or(comb, AudioSegment_empty), AudioSegment_silent(ms))
           /\ units' = Append(us, [type |-> "silence", content |-> <<>>, ms |-> ms])
           /\ i' = i + 1
  ELSE /\ combined' = comb
       /\ units' = us
       /\ i' = i + 1

\* lines 129-134 of one iteration, after the text of parts[i] was handled
AppendPause(comb, us) ==
  IF i + 1 < Len(parts)
  THEN LET ms == silence_ms(parts[i + 2])
       IN  /\ combined' = Plus(Or(comb, AudioSegment_empty), AudioSegment_silent(ms))
           /\ units' = Append(us, [type |-> "silence", content |-> <<>>, ms |-> ms])
           /\ i' = i + 2
  ELSE /\ combined' = comb
       /\ units' = us
       /\ i' = i + 1

\* lines 122-134: one iteration of the while loop
LoopStep ==
  /\ pc = "loop"
  /\ i < Len(parts)
  /\ LET segment_text == PyStrip(parts[i + 1])
     IN  IF segment_text # <<>>
         THEN /\ calls' = Append(calls, Call(segment_text))
              /\ \/ \E ms \in 0..MaxAudioMs :
                      LET audio == Segment(Run("audio", Len(calls) + 1, ms))
                      IN  /\ AppendPause(IF combined.none THEN audio
                                         ELSE Plus(combined, audio),
                                         Append(units, [type |-> "text",
                                                        content |-> segment_text,
                                                        ms |-> ms]))
                          /\ UNCHANGED <<pc, pending, failed>>
                 \/ \* _synthesise raises
                    /\ pending' = "raise"
                    /\ failed' = "synth"
                    /\ pc' = "finally"
                    /\ UNCHANGED <<i, combined, units>>
         ELSE /\ AppendPause(combined, units)
              /\ UNCHANGED <<calls, pc, pending, failed>>
  /\ UNCHANGED <<rawText, urlKind, text, prompt_path, parts, result, files,
                 created, downloads, unlinked, encoded>>

\* lines 122, 136-137: the loop ends
LoopExit ==
  /\ pc = "loop"
  /\ i >= Len(parts)
  /\ pending' = IF combined.none THEN "return_error" ELSE "none"
  /\ pc' = "finally"
  /\ UNCHANGED <<rawText, urlKind, text, prompt_path, parts, i, combined,
                 result, files, created, downloads, unlinked, calls, units,
                 encoded, failed>>

\* mutant: the exception is swallowed and handler goes on to the encode
Finally_Swallows ==
  /\ pc = "finally"
  /\ IF prompt_path # NoPath /\ prompt_path \in files
     THEN /\ files' = files \ {prompt_path}
          /\ unlinked' = unlinked + 1
     ELSE UNCHANGED <<files, unlinked>>
  /\ CASE pending = "return_error" -> /\ result' = ErrorResult(ErrNoSpeakable)
                                      /\ pc' = "done"
       [] OTHER -> /\ result' = result
                   /\ pc' = "encode"
  /\ UNCHANGED <<rawText, urlKind, text, prompt_path, parts, i, combined,
                 pending, created, downloads, calls, units, encoded, failed>>

\* lines 139-141, then what the try block left pending
Finally ==
  /\ pc = "finally"
  /\ IF prompt_path # NoPath /\ prompt_path \in files
     THEN /\ files' = files \ {prompt_path}
          /\ unlinked' = unlinked + 1
     ELSE UNCHANGED <<files, unlinked>>
  /\ CASE pending = "raise" -> /\ result' = Raised
                               /\ pc' = "done"
       [] pending = "return_error" -> /\ result' = ErrorResult(ErrNoSpeakable)
                                      /\ pc' = "done"
       [] OTHER -> /\ result' = result
                   /\ pc' = "encode"
  /\ UNCHANGED <<rawText, urlKind, text, prompt_path, parts, i, combined,
                 pending, created, downloads, calls, units, encoded, failed>>

\* lines 143-151
Encode ==
  /\ pc = "encode"
  /\ encoded' = Append(encoded, combined)
  /\ \/ /\ result' = SuccessResult(combined)
        /\ UNCHANGED failed
     \/ \* export raises
        /\ result' = Raised
        /\ failed' = "encode"
  /\ pc' = "done"
  /\ UNCHANGED <<rawText, urlKind, text, prompt_path, parts, i, combined,
                 pending, files, created, downloads, unlinked, calls, units>>

Next ==
  \/ Validate
  \/ SkipFetch
  \/ FetchCreate
  \/ FetchRetrieve
  \/ Split
  \/ LoopStep
  \/ LoopExit
  \/ Finally
  \/ Encode

Spec == Init /\ [][Next]_vars

\* _sanitise_text alone, as the first step of handler applies it
InitSanitise ==
  /\ rawText \in Texts(SanitiseChunks, MaxSanitiseChunks)
  /\ urlKind = "absent"
  /\ pc = "start"
  /\ text = <<>>
  /\ prompt_path = NoPath
  /\ parts = <<>>
  /\ i = 0
  /\ combined = None
  /\ pending = "none"
  /\ result = NoResult
  /\ files = {}
  /\ created = 0
  /\ downloads = 0
  /\ unlinked = 0
  /\ calls = <<>>
  /\ units = <<>>
  /\ encoded = <<>>
  /\ failed = "none"

NextSanitise == Validate

SpecSanitise == InitSanitise /\ [][NextSanitise]_vars

\* ------------------------------------------------------------------------
\* The reference plan of a normalized text: the plan as the properties
\* below speak of it, read off the text directly and with exact decimal
\* arithmetic, independently of re.split and of the loop of handler
\* ------------------------------------------------------------------------
IsDigits(d) == Len(d) >= 1 /\ \A k \in 1..Len(d) : d[k] \in Digits

\* a non-negative integer or decimal
IsNumeral(n) ==
  \/ IsDigits(n)
  \/ \E k \in 2..(Len(n) - 1) :
       /\ n[k] = "."
       /\ IsDigits(SubSeq(n, 1, k - 1))
       /\ IsDigits(SubSeq(n, k + 1, Len(n)))

\* m is a pause marker [pause:<number>]
IsMarker(m) ==
  /\ Len(m) >= Len(PausePrefix) + 2
  /\ SubSeq(m, 1, Len(PausePrefix)) = PausePrefix
  /\ m[Len(m)] = "]"
  /\ IsNumeral(SubSeq(m, Len(PausePrefix) + 1, Len(m) - 1))

MarkerNumeral(m) == SubSeq(m, Len(PausePrefix) + 1, Len(m) - 1)

\* the run without its surrounding whitespace
Trimmed(run) ==
  LET ks == { k \in 1..Len(run) : run[k] \notin Whitespace }
  IN  IF ks = {} THEN <<>>
      ELSE SubSeq(run, CHOOSE a \in ks : \A b \in ks : a <= b,
                       CHOOSE a \in ks : \A b \in ks : a >= b)

TextUnit(content) == [type |-> "text", content |-> content, ms |-> 0]
SilenceUnit(ms) == [type |-> "silence", content |-> <<>>, ms |-> ms]

TextUnitOf(run) ==
  IF Trimmed(run) = <<>> THEN <<>> ELSE << TextUnit(Trimmed(run)) >>

\* reading left to right: run is the text read since the last marker
RECURSIVE RefScan(_, _, _)
RefScan(s, p, run) ==
  IF p > Len(s) THEN TextUnitOf(run)
  ELSE LET ends == IF s[p] # Head(PausePrefix) THEN {}
                   ELSE { e \in p..Len(s) : IsMarker(SubSeq(s, p, e)) }
       IN  IF ends = {} THEN RefScan(s, p + 1, Append(run, s[p]))
           ELSE LET e == CHOOSE x \in ends : TRUE
                IN  TextUnitOf(run)
                      \o << SilenceUnit(DecimalMillis(MarkerNumeral(SubSeq(s, p, e)))) >>
                      \o RefScan(s, e + 1, <<>>)

RefPlan(t) == RefScan(t, 1, <<>>)

\* the contents of the TextUnits of a plan, in order
TextContents(plan) ==
  LET ts == SelectSeq(plan, LAMBDA u : u.type = "text")
  IN  [k \in 1..Len(ts) |-> ts[k].content]

\* the units the loop processed, without the durations of the audio
Processed ==
  [k \in 1..Len(units) |->
     IF units[k].type = "text" THEN TextUnit(units[k].content) ELSE units[k]]

CallTexts == [k \in 1..Len(calls) |-> calls[k].text]

IsPrefix(a, b) == Len(a) <= Len(b) /\ SubSeq(b, 1, Len(a)) = a

\* the unit loop has run to its end
LoopCompleted ==
  pc \in {"finally", "encode", "done"} /\ failed \in {"none", "encode"}

\* the fragments of the processed units, appended in order; n counts the
\* text units already appended
RECURSIVE Fragments(_, _)
Fragments(us, n) ==
  IF us = <<>> THEN <<>>
  ELSE IF Head(us).type = "text"
       THEN Run("audio", n + 1, Head(us).ms) \o Fragments(Tail(us), n + 1)
       ELSE Run("silence", 0, Head(us).ms) \o Fragments(Tail(us), n)

RECURSIVE SumMs(_)
SumMs(us) == IF us = <<>> THEN 0 ELSE Head(us).ms + SumMs(Tail(us))

OnlyBlank(t) == \A k \in 1..Len(t) : t[k] \in Whitespace \cup {CTRL}

\* ------------------------------------------------------------------------
\* Properties
\* ------------------------------------------------------------------------

\* C1: once handler has finished a request that set audio_prompt_url, the
\* temporary file created by _fetch_audio_prompt no longer exists.
C1_NoTempFileAfterRequest ==
  (pc = "done" /\ urlKind = "url") => TmpName \notin files

\* C2: a text with markers and whitespace only (no TextUnit in its plan)
\* ends with an error result, without synthesis call and without encode.
C2_PauseOnlyIsError ==
  (pc = "done" /\ text # <<>> /\ failed \notin {"tmpfile", "fetch"}
     /\ TextContents(RefPlan(text)) = <<>>)
  => (result.kind = "error" /\ calls = <<>> /\ encoded = <<>>)

C4_EmptyTextRejected ==
  (pc # "start" /\ (text = <<>> \/ OnlyBlank(rawText))) =>
    /\ pc = "done"
    /\ result = ErrorResult(ErrEmptyText)
    /\ downloads = 0 /\ created = 0 /\ files = {} /\ unlinked = 0
    /\ calls = <<>> /\ encoded = <<>>

C4_Witness ==
  /\ pc = "done"
  /\ urlKind = "url"
  /\ Len(rawText) >= 2
  /\ OnlyBlank(rawText)
  /\ \E k \in 1..Len(rawText) : rawText[k] = CTRL
  /\ result = ErrorResult(ErrEmptyText)

\* C5: the synthesis calls are made in plan order with the trimmed contents
\* of the TextUnits, one call per TextUnit when the loop runs to its end,
\* and after a failed synthesis call no further call is made.
C5_OneCallPerTextUnit ==
  /\ [](pc # "start" =>
          LET contents == TextContents(RefPlan(text))
          IN  /\ IsPrefix(CallTexts, contents)
              /\ LoopCompleted => CallTexts = contents)
  /\ [][(failed = "synth") => (calls' = calls)]_vars

C5_Witness ==
  /\ pc = "done"
  /\ failed = "none"
  /\ Len(calls) = 2
  /\ calls[1].text = calls[2].text

\* C6: the units processed by handler are the reference plan of the text:
\* one TextUnit per non-blank run, one SilenceUnit of N*1000 ms per marker.
C6_ProcessedIsReferencePlan ==
  (LoopCompleted /\ text # <<>>) => Processed = RefPlan(text)

\* the kinds and contents of the units of a plan, without the durations
Shape(plan) ==
  [k \in 1..Len(plan) |-> [type |-> plan[k].type, content |-> plan[k].content]]

\* the part of C6 that does not depend on the conversion of the number: the
\* processed units and the reference plan have the same kinds and contents
\* in the same order, and each pause is what line 130 makes of its number
ProcessedShapeIsReferenceShape ==
  (LoopCompleted /\ text # <<>>) =>
    /\ Shape(Processed) = Shape(RefPlan(text))
    /\ \A k \in 1..Len(units) :
         units[k].type = "silence" =>
           RefPlan(text)[k].ms - units[k].ms \in {0, 1}

\* C7: the assembled buffer, and the buffer handed to the encoder, is the
\* in-order concatenation of the fragments of the processed units; its
\* duration is the sum of their durations.
C7_StrictConcatenation ==
  /\ combined.runs = Fragments(units, 0)
  /\ Duration(combined.runs) = SumMs(units)
  /\ combined.none => units = <<>>
  /\ \A k \in 1..Len(encoded) :
       /\ ~encoded[k].none
       /\ encoded[k].runs = Fragments(units, 0)
       /\ Duration(encoded[k].runs) = SumMs(units)

C7_Witness ==
  /\ Len(encoded) = 1
  /\ Len(units) = 3
  /\ units[1].type = "text" /\ units[1].ms = 0
  /\ units[2].type = "silence"
  /\ units[3].type = "text" /\ units[3].ms > 0

\* C8: sanitising a sanitised text changes nothing.
C8_SanitiseIdempotent ==
  pc # "start" => _sanitise_text(text) = text

\* C9: without audio_prompt_url (absent or empty) there is no download and
\* no temporary file at any point, every synthesis call gets no prompt
\* path, and nothing is deleted.
C9_NoUrlNoFile ==
  urlKind # "url" =>
    /\ downloads = 0 /\ created = 0 /\ files = {} /\ unlinked = 0
    /\ prompt_path = NoPath
    /\ \A k \in 1..Len(calls) : calls[k].prompt = NoPath

C9_Witness ==
  /\ urlKind = "empty"
  /\ pc = "done"
  /\ result.kind = "success"
  /\ Len(calls) >= 1

\* C10: after a successful fetch the temporary file exists at every
\* synthesis call and its path is the prompt argument; it is deleted only
\* in the finally block, after the loop, and is gone when the encode starts.
C10_FileLivesThroughLoop ==
  /\ [](prompt_path = TmpName =>
          /\ \A k \in 1..Len(calls) :
               calls[k].prompt = TmpName /\ calls[k].promptExists
          /\ pc \in {"split", "loop", "finally"} => TmpName \in files
          /\ pc = "encode" => TmpName \notin files
          /\ encoded # <<>> => TmpName \notin files)
  /\ [][(TmpName \in files /\ TmpName \notin files') => (pc = "finally")]_vars

C10_Witness ==
  /\ pc = "done"
  /\ prompt_path = TmpName
  /\ Len(calls) = 2
  /\ result.kind = "success"
  /\ unlinked = 1

====
